---- MODULE Spec2Model ----
(***************************************************************************)
(* rsdb: the file layer (file.rs), the log manager (log.rs) and the buffer *)
(* manager (buffer.rs), modelled at the level of bytes, pages and blocks.  *)
(*                                                                         *)
(* A page and a file are sequences of bytes; offset o of the source is     *)
(* index o + 1 here.  Every operation of the source is an operator over a  *)
(* record w (the "world": the disk, the LogManager's fields, the buffer    *)
(* pool and the trace of the file I/O the running operation has made), so  *)
(* that an action is the whole handler, with its calls in source order.    *)
(***************************************************************************)
EXTENDS Integers, Sequences, FiniteSets, TLC

\* Block size of the model.  The source's BLOCK_SIZE is 4096 (file.rs:11);
\* the model keeps the layout and scales the size.
BlockSize == 16

\* mem::size_of::<i32>()
I32_SIZE == 4

\* Cap on the number of LogManager::append calls of one run.
MaxAppends == 4

\* Cap on a frame's pin count.
MaxPins == 2

\* Width of a frame's pin count (pins: u64, scaled): the counts are
\* 0 .. 2^PinBits - 1.
PinBits == 3

\* Cap on the appends of the runs that follow the frames' LSNs.
WalAppends == 2

\* BufferManager::new(fm, lm, 3) in both buffer tests.
NumBuffs == 3

\* The pool of the runs that follow the frames' pages, transactions and
\* LSNs: one frame fewer.
SmallPool == NumBuffs - 1

\* The log file of the run ("test_log" in the buffer tests, scaled).
LogFileName == "log"

\* The file the buffer pool's blocks live in, and its block numbers.
DataFileName == "t"
DataBlockNums == 0 .. NumBuffs
SmallBlockNums == 0 .. SmallPool

\* Record payloads handed to LogManager::append.
Payloads == {<<7>>, <<8, 9>>, <<5, 5, 5>>}

\* Transaction numbers handed to set_modified and flush_all.
TxNums == {0, 1}

\* Values a caller stores into a pinned frame's page, and where.
ModVals == {1}
ModOffset == 8

\* Caps on the calls of one run of a caller of Page and of the FileManager.
MaxPageCalls == 3
MaxFileCalls == 4

\* The highest block of the data file a caller of the file layer uses.
MaxFileBlock == 2

\* The pages a caller of the file layer holds: one it fills and writes from,
\* one it reads into.
PageIds == {1, 2}

\* The threads that share the managers
Threads == {1, 2}

\* The longest log a rollback iterates over
MaxRecords == 1

\* Cap on the LogManagers made over the log file after the first.
MaxReopens == 1

None == [none |-> TRUE]

Max(a, b) == IF a >= b THEN a ELSE b
Min(a, b) == IF a <= b THEN a ELSE b

RECURSIVE Reverse(_)
Reverse(s) == IF s = <<>> THEN <<>> ELSE Append(Reverse(Tail(s)), Head(s))

-----------------------------------------------------------------------------
(* file.rs: BlockId *)

BlockId(filename, n) == [filename |-> filename, number |-> n]

-----------------------------------------------------------------------------
(* file.rs: Page, a Cursor<Vec<u8>> *)

Page_new(capacity) == [i \in 1 .. capacity |-> 0]

\* The four bytes of a non-negative i32, most significant first.
NatBytes(v) ==
    << (v \div 16777216) % 256, (v \div 65536) % 256, (v \div 256) % 256, v % 256 >>

\* i32::to_be_bytes: two's complement, big-endian.
to_be_bytes(v) ==
    IF v >= 0 THEN NatBytes(v)
    ELSE [i \in 1 .. I32_SIZE |-> 255 - NatBytes(-v - 1)[i]]

\* i32::from_be_bytes
from_be_bytes(b) ==
    IF b[1] < 128
    THEN b[1] * 16777216 + b[2] * 65536 + b[3] * 256 + b[4]
    ELSE -((255 - b[1]) * 16777216 + (255 - b[2]) * 65536
           + (255 - b[3]) * 256 + (255 - b[4])) - 1

\* Write::write_all at a position of a growable byte vector (Cursor<Vec<u8>>)
\* or of a file: the bytes land at off, the vector grows to hold them and a
\* gap below off is filled with zeros.  Writing no bytes changes nothing.
WriteAt(buf, off, bytes) ==
    IF bytes = <<>> THEN buf
    ELSE LET n == Len(buf)
             m == Len(bytes)
             head == IF off <= n THEN SubSeq(buf, 1, off)
                     ELSE buf \o [i \in 1 .. off - n |-> 0]
             tail == IF off + m < n THEN SubSeq(buf, off + m + 1, n) ELSE <<>>
         IN  head \o bytes \o tail

Page_set_i32(p, off, val) == WriteAt(p, off, to_be_bytes(val))

\* read_exact of I32_SIZE bytes at off: an error when the page ends before.
Page_get_i32(p, off) ==
    IF off + I32_SIZE <= Len(p)
    THEN [ok |-> TRUE, val |-> from_be_bytes(SubSeq(p, off + 1, off + I32_SIZE))]
    ELSE [ok |-> FALSE, val |-> 0]

\* Page::set_bytes without the length in front of the bytes.
set_bytes_unprefixed(p, off, bytes) == WriteAt(p, off + I32_SIZE, bytes)

Page_set_bytes(p, off, bytes) ==
    WriteAt(Page_set_i32(p, off, Len(bytes)), off + I32_SIZE, bytes)

\* The length prefix, then read_exact of that many bytes.
Page_get_bytes(p, off) ==
    LET n == Page_get_i32(p, off)
    IN  IF n.ok /\ n.val >= 0 /\ off + I32_SIZE + n.val <= Len(p)
        THEN [ok |-> TRUE,
              val |-> SubSeq(p, off + I32_SIZE + 1, off + I32_SIZE + n.val)]
        ELSE [ok |-> FALSE, val |-> <<>>]

\* A string is the sequence of its characters' code points.  str::as_bytes:
\* the UTF-8 encoding, one byte below 128 and two bytes below 2048.
RECURSIVE as_bytes(_)
as_bytes(s) ==
    IF s = <<>> THEN <<>>
    ELSE LET c == Head(s)
         IN  (IF c < 128 THEN <<c>> ELSE <<192 + (c \div 64), 128 + (c % 64)>>)
             \o as_bytes(Tail(s))

\* String::from_utf8: the string the bytes encode, or an error when they
\* are not the UTF-8 encoding of one- and two-byte characters.
RECURSIVE from_utf8(_)
from_utf8(b) ==
    IF b = <<>> THEN [ok |-> TRUE, val |-> <<>>]
    ELSE IF b[1] < 128
         THEN LET r == from_utf8(Tail(b))
              IN  [ok |-> r.ok, val |-> <<b[1]>> \o r.val]
         ELSE IF b[1] >= 194 /\ b[1] < 224 /\ Len(b) >= 2 /\ b[2] >= 128 /\ b[2] < 192
              THEN LET r == from_utf8(SubSeq(b, 3, Len(b)))
                   IN  [ok |-> r.ok,
                        val |-> <<(b[1] - 192) * 64 + (b[2] - 128)>> \o r.val]
              ELSE [ok |-> FALSE, val |-> <<>>]

\* get_bytes, then String::from_utf8(..).unwrap(): bytes that are no UTF-8
\* end the call (ok is FALSE).
Page_get_string(p, off) ==
    LET byte == Page_get_bytes(p, off)
        str == from_utf8(byte.val)
    IN  IF byte.ok /\ str.ok THEN [ok |-> TRUE, val |-> str.val]
        ELSE [ok |-> FALSE, val |-> <<>>]

Page_set_string(p, off, s) == Page_set_bytes(p, off, as_bytes(s))

Page_max_length(strlen) == I32_SIZE + strlen

-----------------------------------------------------------------------------
(* file.rs: FileManager.  w.files maps a file name to the file's bytes;    *)
(* w.io is the trace of file I/O of the running operation.                 *)

FileManager_block_size == BlockSize

\* One entry of the I/O trace.  frame is the pool index of the frame whose
\* page moves (0: the log page or an iterator's page), lsn that frame's lsn.
IoEvent(w, op, block, frame, lsn) ==
    [op |-> op, block |-> block, frame |-> frame, lsn |-> lsn,
     saved |-> w.last_saved_lsn, latest |-> w.latest_lsn]

FileManager_length(w, filename) == Len(w.files[filename]) \div FileManager_block_size

\* The number of bytes one read at offset delivers into the page's buffer:
\* what the file has from there on, at most the buffer's length.
BytesRead(file, offset, p) == Min(Len(p), Max(0, Len(file) - offset))

\* seek to block_size * number, then one read into the page's buffer: the
\* bytes the file has from there on, at most a page of them; the rest of the
\* page keeps what it held.
ReadInto(file, offset, p) ==
    LET n == BytesRead(file, offset, p)
    IN  SubSeq(file, offset + 1, offset + n) \o SubSeq(p, n + 1, Len(p))

\* FileManager::read: the page read, and the world with the read traced.
FileManager_read(w, block, p, frame) ==
    LET offset == FileManager_block_size * block.number
    IN  [page |-> ReadInto(w.files[block.filename], offset, p),
         w |-> [w EXCEPT !.io = Append(@, IoEvent(w, "read", block, frame, -1))]]

FileManager_write(w, block, p, frame, lsn) ==
    LET offset == FileManager_block_size * block.number
    IN  [w EXCEPT !.files[block.filename] = WriteAt(@, offset, p),
                  !.io = Append(@, IoEvent(w, "write", block, frame, lsn))]

\* FileManager::append: the block number is the length of the file's NAME,
\* and the write of an empty buffer at that offset leaves the file as it is.
FileManager_append(w, filename) ==
    LET blk_num == Len(filename)
        block == BlockId(filename, blk_num)
        offset == FileManager_block_size * block.number
    IN  [block |-> block,
         w |-> [w EXCEPT !.files[filename] = WriteAt(@, offset, <<>>),
                         !.io = Append(@, IoEvent(w, "append", block, 0, -1))]]

-----------------------------------------------------------------------------
(* log.rs: LogManager.  Fields: w.log_page, w.cur_block, w.latest_lsn,     *)
(* w.last_saved_lsn.                                                        *)

\* LogManager::flush counting one record more than were appended.
flush_saves_next_lsn(w) ==
    LET w1 == FileManager_write(w, w.cur_block, w.log_page, 0, -1)
    IN  [w1 EXCEPT !.last_saved_lsn = w1.latest_lsn + 1]

LogManager_flush(w) ==
    LET w1 == FileManager_write(w, w.cur_block, w.log_page, 0, -1)
    IN  [w1 EXCEPT !.last_saved_lsn = w1.latest_lsn]

\* LogManager::flush_with_lsn that skips the flush when lsn is the last
\* saved one.
flush_with_lsn_strict(w, lsn) ==
    IF lsn > w.last_saved_lsn THEN LogManager_flush(w) ELSE w

\* LogManager::flush_with_lsn with its comparison turned around.
flush_with_lsn_inverted(w, lsn) ==
    IF lsn <= w.last_saved_lsn THEN LogManager_flush(w) ELSE w

LogManager_flush_with_lsn(w, lsn) ==
    IF lsn >= w.last_saved_lsn THEN LogManager_flush(w) ELSE w

LogManager_append_new_block(w) ==
    LET a == FileManager_append(w, LogFileName)
        w1 == [a.w EXCEPT !.log_page = Page_set_i32(@, 0, FileManager_block_size)]
    IN  [block |-> a.block,
         w |-> FileManager_write(w1, a.block, w1.log_page, 0, -1)]

\* LogManager::append returning the LSN it read before the increment.
append_returns_stale_lsn(w, log_record) ==
    LET boundary0 == Page_get_i32(w.log_page, 0).val
        byte_needed == Len(log_record) + I32_SIZE
        roll == (boundary0 - byte_needed) < I32_SIZE
        nb == LogManager_append_new_block(LogManager_flush(w))
        w1 == IF roll THEN [nb.w EXCEPT !.cur_block = nb.block] ELSE w
        boundary == IF roll THEN Page_get_i32(w1.log_page, 0).val ELSE boundary0
        record_pos == boundary - byte_needed
        w2 == [w1 EXCEPT !.log_page =
                  Page_set_i32(Page_set_bytes(@, record_pos, log_record), 0, record_pos)]
    IN  [w |-> [w2 EXCEPT !.latest_lsn = @ + 1], lsn |-> w.latest_lsn]

\* LogManager::append placing the record without room for its length.
append_without_length_room(w, log_record) ==
    LET boundary0 == Page_get_i32(w.log_page, 0).val
        byte_needed == Len(log_record) + I32_SIZE
        roll == (boundary0 - byte_needed) < I32_SIZE
        nb == LogManager_append_new_block(LogManager_flush(w))
        w1 == IF roll THEN [nb.w EXCEPT !.cur_block = nb.block] ELSE w
        boundary == IF roll THEN Page_get_i32(w1.log_page, 0).val ELSE boundary0
        record_pos == boundary - Len(log_record)
        w2 == [w1 EXCEPT !.log_page =
                  Page_set_i32(Page_set_bytes(@, record_pos, log_record), 0, record_pos)]
        w3 == [w2 EXCEPT !.latest_lsn = @ + 1]
    IN  [w |-> w3, lsn |-> w3.latest_lsn]

\* LogManager::append that writes the log page to disk at once.
append_then_flush(w, log_record) ==
    LET boundary0 == Page_get_i32(w.log_page, 0).val
        byte_needed == Len(log_record) + I32_SIZE
        roll == (boundary0 - byte_needed) < I32_SIZE
        nb == LogManager_append_new_block(LogManager_flush(w))
        w1 == IF roll THEN [nb.w EXCEPT !.cur_block = nb.block] ELSE w
        boundary == IF roll THEN Page_get_i32(w1.log_page, 0).val ELSE boundary0
        record_pos == boundary - byte_needed
        w2 == [w1 EXCEPT !.log_page =
                  Page_set_i32(Page_set_bytes(@, record_pos, log_record), 0, record_pos)]
        w3 == LogManager_flush([w2 EXCEPT !.latest_lsn = @ + 1])
    IN  [w |-> w3, lsn |-> w3.latest_lsn]

\* LogManager::append: the world after it and the LSN it returns.
LogManager_append(w, log_record) ==
    LET boundary0 == Page_get_i32(w.log_page, 0).val
        record_size == Len(log_record)
        byte_needed == record_size + I32_SIZE
        roll == (boundary0 - byte_needed) < I32_SIZE
        nb == LogManager_append_new_block(LogManager_flush(w))
        w1 == IF roll THEN [nb.w EXCEPT !.cur_block = nb.block] ELSE w
        boundary == IF roll THEN Page_get_i32(w1.log_page, 0).val ELSE boundary0
        record_pos == boundary - byte_needed
        w2 == [w1 EXCEPT !.log_page =
                  Page_set_i32(Page_set_bytes(@, record_pos, log_record), 0, record_pos)]
        w3 == [w2 EXCEPT !.latest_lsn = @ + 1]
    IN  [w |-> w3, lsn |-> w3.latest_lsn]

\* LogManager::new on the files of w: the log page and the current block.
LogManager_new(w) ==
    LET block_size == FileManager_block_size
        log_size == FileManager_length(w, LogFileName)
        a == FileManager_append(w, LogFileName)
        fresh == Page_set_i32(Page_new(block_size), 0, block_size)
        cur == BlockId(LogFileName, log_size - 1)
        r == FileManager_read(w, cur, Page_new(block_size), 0)
    IN  IF log_size = 0
        THEN [FileManager_write(a.w, a.block, fresh, 0, -1)
                EXCEPT !.log_page = fresh, !.cur_block = a.block,
                       !.latest_lsn = 0, !.last_saved_lsn = 0]
        ELSE [r.w EXCEPT !.log_page = r.page, !.cur_block = cur,
                         !.latest_lsn = 0, !.last_saved_lsn = 0]

-----------------------------------------------------------------------------
(* log.rs: LogIterator.  Fields: block_id, page, cur_pos, boundary.        *)

LogIterator_new(w, block) ==
    LET r == FileManager_read(w, block, Page_new(FileManager_block_size), 0)
        boundary == Page_get_i32(r.page, 0).val
    IN  [it |-> [block_id |-> block, page |-> r.page,
                 cur_pos |-> boundary, boundary |-> boundary],
         w |-> r.w]

LogIterator_has_next(it) ==
    it.cur_pos < FileManager_block_size \/ it.block_id.number > 0

\* LogIterator::next: Some(record) as [some |-> TRUE, val |-> record].  The
\* early return comes first, so the move to the previous block is never taken.
LogIterator_next(w, it) ==
    IF it.cur_pos >= FileManager_block_size
    THEN [item |-> [some |-> FALSE, val |-> <<>>], it |-> it, w |-> w]
    ELSE LET block == BlockId(it.block_id.filename, it.block_id.number - 1)
             mv == it.cur_pos = FileManager_block_size
             r == FileManager_read(w, block, it.page, 0)
             it1 == IF mv
                    THEN [it EXCEPT !.page = r.page,
                                    !.boundary = Page_get_i32(r.page, 0).val,
                                    !.cur_pos = Page_get_i32(r.page, 0).val]
                    ELSE it
             w1 == IF mv THEN r.w ELSE w
             record == Page_get_bytes(it1.page, it1.cur_pos).val
         IN  [item |-> [some |-> TRUE, val |-> record],
              it |-> [it1 EXCEPT !.cur_pos = @ + I32_SIZE + Len(record)],
              w |-> w1]

\* LogManager::iterator
LogManager_iterator(w) ==
    LET w1 == LogManager_flush(w)
    IN  LogIterator_new(w1, w1.cur_block)

-----------------------------------------------------------------------------
(* buffer.rs: Buffer.  w.pool[i] is frame i of the pool, with the fields   *)
(* contents, block (None or a BlockId), pins, txnum and lsn.               *)

MAX_TIME == 10000

\* thread::sleep(Duration::new(1, 0)), in milliseconds
SleepMs == 1000

Buffer_new ==
    [contents |-> Page_new(FileManager_block_size), block |-> None,
     pins |-> 0, txnum |-> -1, lsn |-> -1]

\* `self.lsn as u64`: a negative lsn becomes 2^64 + lsn, above every i32, so
\* what it compares to is kept by the largest i32.
as_u64(x) == IF x >= 0 THEN x ELSE 2147483647

Buffer_set_modified(w, i, txnum, lsn) ==
    [w EXCEPT !.pool[i].txnum = txnum,
              !.pool[i].lsn = IF lsn >= 0 THEN lsn ELSE @]

\* is_pinned off by one.
is_pinned_above_one(w, i) == w.pool[i].pins > 1

Buffer_is_pinned(w, i) == w.pool[i].pins > 0

Buffer_modifying_tx(w, i) == w.pool[i].txnum

Buffer_flush(w, i) ==
    IF w.pool[i].txnum >= 0
    THEN LET w1 == LogManager_flush_with_lsn(w, as_u64(w.pool[i].lsn))
         IN  IF w1.pool[i].block # None
             THEN [FileManager_write(w1, w1.pool[i].block, w1.pool[i].contents,
                                     i, w1.pool[i].lsn)
                     EXCEPT !.pool[i].txnum = @ - 1]
             ELSE w1
    ELSE w

\* Buffer::assign_to_block that reads the new block over a dirty page
\* without writing the page first.
assign_without_flush(w, i, block) ==
    LET r == FileManager_read(w, block, w.pool[i].contents, i)
    IN  [r.w EXCEPT !.pool[i].contents = r.page,
                    !.pool[i].block = block,
                    !.pool[i].pins = 0]

Buffer_assign_to_block(w, i, block) ==
    LET w1 == Buffer_flush(w, i)
        r == FileManager_read(w1, block, w1.pool[i].contents, i)
    IN  [r.w EXCEPT !.pool[i].contents = r.page,
                    !.pool[i].block = block,
                    !.pool[i].pins = 0]

\* The arithmetic of pins is that of an unsigned integer of PinBits bits.
\* A build with overflow checks panics where the count leaves 0 .. PinMax;
\* a build without them wraps around.
PinMax == 2 ^ PinBits - 1

Buffer_pin(w, i) == [w EXCEPT !.pool[i].pins = (@ + 1) % 2 ^ PinBits]

Buffer_unpin(w, i) == [w EXCEPT !.pool[i].pins = (@ - 1) % 2 ^ PinBits]

Buffer_unpin_overflows(w, i) == w.pool[i].pins = 0

-----------------------------------------------------------------------------
(* buffer.rs: BufferManager.  Fields: w.pool, w.num_available.  A frame is *)
(* named by its index in the pool; 0 stands for Option::None.              *)

BufferManager_available(w) == w.num_available

\* Iterator::find over the pool: the first index that satisfies, or 0.
FirstIndex(S) == IF S = {} THEN 0 ELSE CHOOSE i \in S : \A j \in S : i <= j

\* find_existing_buffer that passes over the frames nobody has pinned.
find_existing_buffer_pinned(w, block) ==
    FirstIndex({i \in 1 .. Len(w.pool) :
                  w.pool[i].block = block /\ w.pool[i].pins > 0})

\* find_existing_buffer that looks at no frame but the first.
find_existing_buffer_in_first(w, block) ==
    FirstIndex({i \in 1 .. Min(1, Len(w.pool)) : w.pool[i].block = block})

find_existing_buffer(w, block) ==
    FirstIndex({i \in 1 .. Len(w.pool) : w.pool[i].block = block})

\* choose_unpinned_buffer that falls back on the last frame, pinned or not.
choose_unpinned_or_last(w) ==
    LET u == FirstIndex({i \in 1 .. Len(w.pool) : ~Buffer_is_pinned(w, i)})
    IN  IF u # 0 THEN u ELSE Len(w.pool)

choose_unpinned_buffer(w) ==
    FirstIndex({i \in 1 .. Len(w.pool) : ~Buffer_is_pinned(w, i)})

\* The two branches of try_to_pin share their tail: count the frame out of
\* the available ones when it is unpinned, then pin it.
TakeFrame(w, i) ==
    Buffer_pin(IF ~Buffer_is_pinned(w, i)
               THEN [w EXCEPT !.num_available = @ - 1]
               ELSE w, i)

try_to_pin(w, block) ==
    LET e == find_existing_buffer(w, block)
        u == choose_unpinned_buffer(w)
    IN  IF e # 0 THEN [buf |-> e, w |-> TakeFrame(w, e)]
        ELSE IF u # 0
             THEN [buf |-> u, w |-> TakeFrame(Buffer_assign_to_block(w, u, block), u)]
             ELSE [buf |-> 0, w |-> w]

\* waiting_too_long that gives up at the first test.
waiting_too_long_at_once(elapsed) == elapsed >= 0

waiting_too_long(elapsed) == elapsed > MAX_TIME

\* BufferManager::pin: the retry loop, by the time elapsed since it began.
\* A failed try_to_pin leaves the manager as it was, and pin holds the
\* manager exclusively (&mut self), so every retry sees the same pool.
RECURSIVE pin_loop(_, _, _, _)
pin_loop(w, block, elapsed, tries) ==
    IF waiting_too_long(elapsed)
    THEN [ok |-> FALSE, buf |-> 0, tries |-> tries, w |-> w]
    ELSE LET t == try_to_pin(w, block)
         IN  IF t.buf # 0
             THEN [ok |-> TRUE, buf |-> t.buf, tries |-> tries + 1, w |-> t.w]
             ELSE pin_loop(t.w, block, elapsed + SleepMs, tries + 1)

BufferManager_pin(w, block) == pin_loop(w, block, 0, 0)

\* BufferManager::unpin counting the frame available at every unpin.
unpin_always_available(w, i) ==
    [Buffer_unpin(w, i) EXCEPT !.num_available = @ + 1]

BufferManager_unpin(w, i) ==
    LET w1 == Buffer_unpin(w, i)
    IN  IF ~Buffer_is_pinned(w1, i)
        THEN [w1 EXCEPT !.num_available = @ + 1]
        ELSE w1

\* The loop of flush_all, from frame i on.
RECURSIVE flush_from(_, _, _)
flush_from(w, txnum, i) ==
    IF i > Len(w.pool) THEN w
    ELSE flush_from(IF Buffer_modifying_tx(w, i) = txnum THEN Buffer_flush(w, i) ELSE w,
                    txnum, i + 1)

BufferManager_flush_all(w, txnum) == flush_from(w, txnum, 1)

BufferManager_new(w, num_buffs) ==
    [w EXCEPT !.pool = [i \in 1 .. num_buffs |-> Buffer_new],
              !.num_available = num_buffs]

-----------------------------------------------------------------------------
(* record.rs, log_records.rs, recovery.rs: the log records of a            *)
(* transaction and the RecoveryManager.                                    *)

\* TxType::Start and TxType::Commit as i32
TxType_Start == 1
TxType_Commit == 2

\* StartRecord::write_to_log, CommitRecord::write_to_log: a page of one i32,
\* the record's type, appended to the log.
write_to_log(w, tx_type) ==
    LET reclen == I32_SIZE
        p == Page_set_i32(Page_new(reclen), 0, tx_type)
    IN  LogManager_append(w, p)

\* RecoveryManager::new
RecoveryManager_new(w) == write_to_log(w, TxType_Start)

\* RecoveryManager::commit: the world after it and the commit record's LSN.
RecoveryManager_commit(w, tx_num) ==
    LET w1 == BufferManager_flush_all(w, tx_num)
        a == write_to_log(w1, TxType_Commit)
    IN  [w |-> LogManager_flush_with_lsn(a.w, a.lsn), lsn |-> a.lsn]

-----------------------------------------------------------------------------
(* The state: the disk, the LogManager, the BufferManager, the one         *)
(* LogIterator the caller holds, and what the last operation did.          *)

VARIABLES
    files,            \* FileManager: file name -> the bytes of the file
    log_page,         \* LogManager.log_page
    cur_block,        \* LogManager.cur_block
    latest_lsn,       \* LogManager.latest_lsn
    last_saved_lsn,   \* LogManager.last_saved_lsn
    buffer_pool,      \* BufferManager.buffer_pool
    num_available,    \* BufferManager.num_available
    iter,             \* the caller's LogIterator, or None
    io,               \* the file I/O of the last operation, in order
    ret,              \* the last operation, its argument and what it returned
    appended,         \* the records appended so far, oldest first
    snap,             \* `appended` when the iterator was made
    yielded,          \* the records the iterator has yielded, in order
    marked,           \* per frame: the tx of the last set_modified not yet
                      \* followed by a write of the frame's page, or -1
    durable,          \* last_saved_lsn when flush_with_lsn last returned
    pages,            \* the pages a caller of the file layer holds
    calls,            \* the number of calls that caller has made
    threads,          \* per thread: the call it is in and where it is in it
    bm_mutex,         \* the holder of the Mutex<BufferManager>, or 0
    held,             \* per thread: the locks it holds, in the order it took them
    todo              \* per thread: the lock and unlock steps left of its call

vars == << files, log_page, cur_block, latest_lsn, last_saved_lsn, buffer_pool,
           num_available, iter, io, ret, appended, snap, yielded, marked,
           durable, pages, calls, threads, bm_mutex, held, todo >>

FileNames == {LogFileName, DataFileName}

DataBlocks == {BlockId(DataFileName, n) : n \in DataBlockNums}
SmallBlocks == {BlockId(DataFileName, n) : n \in SmallBlockNums}

Frames == DOMAIN buffer_pool

\* The state of the managers and of their one caller.
seq_state ==
    << files, log_page, cur_block, latest_lsn, last_saved_lsn, buffer_pool,
       num_available, iter, io, ret, appended, snap, yielded, marked, durable,
       pages, calls, threads, bm_mutex >>

\* The state of the threads that share the managers.
conc == << threads, bm_mutex, held, todo >>

\* The world an operation starts in: the state, with an empty I/O trace.
World ==
    [files |-> files, io |-> <<>>, log_page |-> log_page, cur_block |-> cur_block,
     latest_lsn |-> latest_lsn, last_saved_lsn |-> last_saved_lsn,
     pool |-> buffer_pool, num_available |-> num_available]

\* FileManager::new on an empty directory, LogManager::new, and then
\* BufferManager::new with a pool of num_buffs frames.
InitWorld(num_buffs) ==
    BufferManager_new(
        LogManager_new([files |-> [f \in FileNames |-> <<>>], io |-> <<>>,
                        log_page |-> <<>>, cur_block |-> None,
                        latest_lsn |-> 0, last_saved_lsn |-> 0,
                        pool |-> <<>>, num_available |-> 0]),
        num_buffs)

Install(w) ==
    /\ files' = w.files
    /\ io' = w.io
    /\ log_page' = w.log_page
    /\ cur_block' = w.cur_block
    /\ latest_lsn' = w.latest_lsn
    /\ last_saved_lsn' = w.last_saved_lsn
    /\ buffer_pool' = w.pool
    /\ num_available' = w.num_available

Wrote(trace, i) == \E k \in DOMAIN trace : trace[k].op = "write" /\ trace[k].frame = i

\* A write of a frame's page ends the mark its last set_modified left.
Unmark(trace) == [i \in DOMAIN marked |-> IF Wrote(trace, i) THEN -1 ELSE marked[i]]

Returned(op, arg, ok, val) == [op |-> op, arg |-> arg, ok |-> ok, val |-> val]

\* A thread that has made no call and holds no pin.
IdleThread(frames) ==
    [pc |-> "idle", op |-> "none", arg |-> 0, elapsed |-> 0, tries |-> 0,
     helped |-> FALSE, ok |-> TRUE, holds |-> [i \in frames |-> 0]]

InitWith(w) ==
    /\ files = w.files
    /\ io = w.io
    /\ log_page = w.log_page
    /\ cur_block = w.cur_block
    /\ latest_lsn = w.latest_lsn
    /\ last_saved_lsn = w.last_saved_lsn
    /\ buffer_pool = w.pool
    /\ num_available = w.num_available
    /\ iter = None
    /\ ret = Returned("new", 0, TRUE, 0)
    /\ appended = <<>>
    /\ snap = <<>>
    /\ yielded = <<>>
    /\ marked = [i \in DOMAIN w.pool |-> -1]
    /\ durable = 0
    /\ pages = [i \in PageIds |-> Page_new(FileManager_block_size)]
    /\ calls = 0
    /\ threads = [t \in Threads |-> IdleThread(DOMAIN w.pool)]
    /\ bm_mutex = 0
    /\ held = [t \in Threads |-> <<>>]
    /\ todo = [t \in Threads |-> <<>>]

Init == InitWith(InitWorld(NumBuffs))

SmallInit == InitWith(InitWorld(SmallPool))

-----------------------------------------------------------------------------
(* The operations of the LogManager and of the LogIterator.                *)

\* lm.append(rec)
LogAppend(rec) ==
    /\ latest_lsn < MaxAppends
    /\ LET r == LogManager_append(World, rec)
       IN  /\ Install(r.w)
           /\ ret' = Returned("append", rec, TRUE, r.lsn)
           /\ appended' = Append(appended, rec)
           /\ marked' = Unmark(r.w.io)
    /\ UNCHANGED << iter, snap, yielded, durable, pages, calls, conc >>

\* lm.flush_with_lsn(lsn)
LogFlushWithLsn(lsn) ==
    /\ LET w == LogManager_flush_with_lsn(World, lsn)
       IN  /\ Install(w)
           /\ ret' = Returned("flush_with_lsn", lsn, TRUE, 0)
           /\ marked' = Unmark(w.io)
           /\ durable' = w.last_saved_lsn
    /\ UNCHANGED << iter, appended, snap, yielded, pages, calls, conc >>

\* lm.iterator()
LogIteratorNew ==
    /\ LET r == LogManager_iterator(World)
       IN  /\ Install(r.w)
           /\ iter' = r.it
           /\ ret' = Returned("iterator", 0, TRUE, 0)
           /\ marked' = Unmark(r.w.io)
    /\ snap' = appended
    /\ yielded' = <<>>
    /\ UNCHANGED << appended, durable, pages, calls, conc >>

\* iter.next()
LogIteratorNext ==
    /\ iter # None
    /\ LET r == LogIterator_next(World, iter)
       IN  /\ Install(r.w)
           /\ iter' = r.it
           /\ ret' = Returned("next", 0, r.item.some, r.item.val)
           /\ yielded' = IF r.item.some THEN Append(yielded, r.item.val) ELSE yielded
           /\ marked' = Unmark(r.w.io)
    /\ UNCHANGED << appended, snap, durable, pages, calls, conc >>

-----------------------------------------------------------------------------
(* The operations of the BufferManager and of the frames a caller holds.   *)

\* bm.pin(block)
Pin(block) ==
    LET r == BufferManager_pin(World, block)
    IN  /\ r.ok => r.w.pool[r.buf].pins <= MaxPins
        /\ Install(r.w)
        /\ ret' = Returned("pin", block, r.ok, r.buf)
        /\ marked' = Unmark(r.w.io)
        /\ UNCHANGED << iter, appended, snap, yielded, durable, pages, calls, conc >>

\* bm.unpin(buf), by a caller that holds a pin on the frame
Unpin(i) ==
    /\ buffer_pool[i].pins > 0
    /\ LET w == BufferManager_unpin(World, i)
       IN  /\ Install(w)
           /\ ret' = Returned("unpin", i, TRUE, 0)
           /\ marked' = Unmark(w.io)
    /\ UNCHANGED << iter, appended, snap, yielded, durable, pages, calls, conc >>

\* buf.contents().set_i32(ModOffset, v), by a caller that holds a pin
Modify(i, v) ==
    /\ buffer_pool[i].pins > 0
    /\ Install([World EXCEPT !.pool[i].contents = Page_set_i32(@, ModOffset, v)])
    /\ ret' = Returned("modify", i, TRUE, v)
    /\ UNCHANGED << iter, appended, snap, yielded, marked, durable, pages, calls, conc >>

\* buf.set_modified(txnum, lsn), by a caller that holds a pin
SetModified(i, txnum, lsn) ==
    /\ buffer_pool[i].pins > 0
    /\ Install(Buffer_set_modified(World, i, txnum, lsn))
    /\ ret' = Returned("set_modified", i, TRUE, txnum)
    /\ marked' = [marked EXCEPT ![i] = txnum]
    /\ UNCHANGED << iter, appended, snap, yielded, durable, pages, calls, conc >>

\* bm.flush_all(txnum)
FlushAll(txnum) ==
    /\ LET w == BufferManager_flush_all(World, txnum)
       IN  /\ Install(w)
           /\ ret' = Returned("flush_all", txnum, TRUE, 0)
           /\ marked' = Unmark(w.io)
    /\ UNCHANGED << iter, appended, snap, yielded, durable, pages, calls, conc >>

\* RecoveryManager::new(tx, tx_num, lm, bm)
RmNew ==
    /\ latest_lsn < MaxAppends
    /\ LET r == RecoveryManager_new(World)
       IN  /\ Install(r.w)
           /\ ret' = Returned("rm_new", 0, TRUE, r.lsn)
           /\ appended' = Append(appended, to_be_bytes(TxType_Start))
           /\ marked' = Unmark(r.w.io)
    /\ UNCHANGED << iter, snap, yielded, durable, pages, calls, conc >>

\* rm.commit(), of the RecoveryManager of transaction tx_num
Commit(tx_num) ==
    /\ latest_lsn < MaxAppends
    /\ LET r == RecoveryManager_commit(World, tx_num)
       IN  /\ Install(r.w)
           /\ ret' = Returned("commit", tx_num, TRUE, r.lsn)
           /\ appended' = Append(appended, to_be_bytes(TxType_Commit))
           /\ marked' = Unmark(r.w.io)
    /\ UNCHANGED << iter, snap, yielded, durable, pages, calls, conc >>

-----------------------------------------------------------------------------
(* The operations of a caller of the file layer on the pages it holds and  *)
(* on the blocks of the data file.                                         *)

\* pages[i].set_i32(off, val)
PageSetI32(i, off, val) ==
    /\ pages' = [pages EXCEPT ![i] = Page_set_i32(@, off, val)]
    /\ ret' = Returned("set_i32", [page |-> i, off |-> off], TRUE, val)
    /\ io' = <<>>
    /\ UNCHANGED << files, log_page, cur_block, latest_lsn, last_saved_lsn,
                    buffer_pool, num_available, iter, appended, snap, yielded,
                    marked, durable >>
    /\ calls' = calls + 1
    /\ UNCHANGED conc

\* pages[i].get_i32(off)
PageGetI32(i, off) ==
    /\ LET r == Page_get_i32(pages[i], off)
       IN  ret' = Returned("get_i32", [page |-> i, off |-> off], r.ok, r.val)
    /\ io' = <<>>
    /\ UNCHANGED << files, log_page, cur_block, latest_lsn, last_saved_lsn,
                    buffer_pool, num_available, iter, appended, snap, yielded,
                    marked, durable, pages >>
    /\ calls' = calls + 1
    /\ UNCHANGED conc

\* pages[i].set_bytes(off, bytes)
PageSetBytes(i, off, bytes) ==
    /\ pages' = [pages EXCEPT ![i] = Page_set_bytes(@, off, bytes)]
    /\ ret' = Returned("set_bytes", [page |-> i, off |-> off], TRUE, bytes)
    /\ io' = <<>>
    /\ UNCHANGED << files, log_page, cur_block, latest_lsn, last_saved_lsn,
                    buffer_pool, num_available, iter, appended, snap, yielded,
                    marked, durable >>
    /\ calls' = calls + 1
    /\ UNCHANGED conc

\* pages[i].get_bytes(off)
PageGetBytes(i, off) ==
    /\ LET r == Page_get_bytes(pages[i], off)
       IN  ret' = Returned("get_bytes", [page |-> i, off |-> off], r.ok, r.val)
    /\ io' = <<>>
    /\ UNCHANGED << files, log_page, cur_block, latest_lsn, last_saved_lsn,
                    buffer_pool, num_available, iter, appended, snap, yielded,
                    marked, durable, pages >>
    /\ calls' = calls + 1
    /\ UNCHANGED conc

\* pages[i].set_string(off, s)
PageSetString(i, off, str) ==
    /\ pages' = [pages EXCEPT ![i] = Page_set_string(@, off, str)]
    /\ ret' = Returned("set_string", [page |-> i, off |-> off], TRUE, str)
    /\ io' = <<>>
    /\ UNCHANGED << files, log_page, cur_block, latest_lsn, last_saved_lsn,
                    buffer_pool, num_available, iter, appended, snap, yielded,
                    marked, durable >>
    /\ calls' = calls + 1
    /\ UNCHANGED conc

\* pages[i].get_string(off)
PageGetString(i, off) ==
    /\ LET r == Page_get_string(pages[i], off)
       IN  ret' = Returned("get_string", [page |-> i, off |-> off], r.ok, r.val)
    /\ io' = <<>>
    /\ UNCHANGED << files, log_page, cur_block, latest_lsn, last_saved_lsn,
                    buffer_pool, num_available, iter, appended, snap, yielded,
                    marked, durable, pages >>
    /\ calls' = calls + 1
    /\ UNCHANGED conc

\* fm.write(&block, &mut pages[i])
FmWrite(i, block) ==
    /\ Install(FileManager_write(World, block, pages[i], 0, -1))
    /\ ret' = Returned("write", [page |-> i, block |-> block], TRUE, 0)
    /\ UNCHANGED << iter, appended, snap, yielded, marked, durable, pages >>
    /\ calls' = calls + 1
    /\ UNCHANGED conc

\* fm.read(&block, &mut pages[i]).  It returns Ok(()) however many bytes
\* the one read delivered; val is that number.
FmRead(i, block) ==
    /\ LET r == FileManager_read(World, block, pages[i], 0)
       IN  /\ Install(r.w)
           /\ pages' = [pages EXCEPT ![i] = r.page]
           /\ ret' = Returned("read", [page |-> i, block |-> block], TRUE,
                              BytesRead(files[block.filename],
                                        FileManager_block_size * block.number,
                                        pages[i]))
    /\ UNCHANGED << iter, appended, snap, yielded, marked, durable >>
    /\ calls' = calls + 1
    /\ UNCHANGED conc

\* fm.append(filename)
FmAppend(filename) ==
    /\ LET a == FileManager_append(World, filename)
       IN  /\ Install(a.w)
           /\ ret' = Returned("fm_append", filename, TRUE, a.block)
    /\ UNCHANGED << iter, appended, snap, yielded, marked, durable, pages >>
    /\ calls' = calls + 1
    /\ UNCHANGED conc

-----------------------------------------------------------------------------
(* The log manager with its iterator, on its own.                          *)

LogNext ==
    \/ \E rec \in Payloads : LogAppend(rec)
    \/ \E lsn \in 0 .. latest_lsn + 1 : LogFlushWithLsn(lsn)
    \/ LogIteratorNew
    \/ LogIteratorNext

LogSpec == Init /\ [][LogNext]_vars

(* The log manager under a caller whose records are of any length, one of *)
(* them too long for an empty block.                                       *)

\* A record that, with its length, needs more than a block has to give.
BigPayload == [i \in 1 .. FileManager_block_size - I32_SIZE - 2 |-> 1]

AnyPayloads == Payloads \cup {BigPayload}

AnyLogNext ==
    \/ \E rec \in AnyPayloads : LogAppend(rec)
    \/ \E lsn \in {latest_lsn} : LogFlushWithLsn(lsn)

AnyLogSpec == Init /\ [][AnyLogNext]_vars

(* The log file under one LogManager after another: the earlier one is     *)
(* dropped with what its log page held unflushed, the next is made over    *)
(* the file as it is.  Here `calls` counts the managers made after the     *)
(* first, and `appended` keeps, of a dropped manager's records, those with *)
(* an LSN up to its last_saved_lsn.                                         *)

\* The records that managers dropped before appended and flushed.
Earlier == SubSeq(appended, 1, Len(appended) - latest_lsn)

\* LogManager::new(fm, log_file_name) over the log file of the run
LogReopen ==
    /\ calls < MaxReopens
    /\ LET w == LogManager_new(World)
       IN  /\ Install(w)
           /\ marked' = Unmark(w.io)
    /\ appended' = SubSeq(appended, 1, Len(Earlier) + last_saved_lsn)
    /\ calls' = calls + 1
    /\ iter' = None
    /\ snap' = <<>>
    /\ yielded' = <<>>
    /\ durable' = 0
    /\ ret' = Returned("new", calls + 1, TRUE, 0)
    /\ UNCHANGED << pages, conc >>

\* The managers of one run keep at most MaxAppends records between them.
ReopenNext ==
    \/ \E rec \in Payloads : Len(appended) < MaxAppends /\ LogAppend(rec)
    \/ \E lsn \in {latest_lsn} : LogFlushWithLsn(lsn)
    \/ LogIteratorNew
    \/ LogIteratorNext
    \/ LogReopen

ReopenSpec == Init /\ [][ReopenNext]_vars

(* The buffer pool of the tests: three frames, four blocks, and callers   *)
(* that pin, unpin, mark frames modified and flush.                        *)

Next ==
    \/ \E b \in DataBlocks : Pin(b)
    \/ \E i \in Frames : Unpin(i)
    \/ \E i \in Frames : SetModified(i, 0, -1)
    \/ FlushAll(0)

Spec == Init /\ [][Next]_vars

(* The smaller pool under callers that log before they modify: the frames' *)
(* LSNs against the log's.                                                 *)

\* The one record the callers of the pool append.
PoolPayload == <<5, 5, 5>>

\* No frame holds the block pinned: here a block has one caller at a time.
Unpinned(b) == \A i \in Frames : buffer_pool[i].block = b => buffer_pool[i].pins = 0

WalNext ==
    \/ \E b \in SmallBlocks : Unpinned(b) /\ Pin(b)
    \/ \E i \in Frames : Unpin(i)
    \/ \E i \in Frames, lsn \in -1 .. latest_lsn + 1 : SetModified(i, 0, lsn)
    \/ FlushAll(0)
    \/ latest_lsn < WalAppends /\ LogAppend(PoolPayload)

WalSpec == SmallInit /\ [][WalNext]_vars

(* The smaller pool under callers of several transactions that write into  *)
(* the pages they pin.                                                      *)

TxNext ==
    \/ \E b \in SmallBlocks : Pin(b)
    \/ \E i \in Frames : Unpin(i)
    \/ \E i \in Frames, v \in ModVals : Modify(i, v)
    \/ \E i \in Frames, t \in TxNums : SetModified(i, t, -1)
    \/ \E t \in TxNums : FlushAll(t)

TxSpec == SmallInit /\ [][TxNext]_vars

(* The smaller pool under callers of one transaction that write into the *)
(* pages they pin and let them go: frames are replaced while dirty.        *)

EvictNext ==
    \/ \E b \in SmallBlocks : Pin(b)
    \/ \E i \in Frames : Unpin(i)
    \/ \E i \in Frames, v \in ModVals : Modify(i, v)
    \/ \E i \in Frames : SetModified(i, 0, -1)

EvictSpec == SmallInit /\ [][EvictNext]_vars

(* Threads that share the BufferManager as Arc<Mutex<BufferManager>>, the *)
(* way the RecoveryManager holds it: a call is `bm.lock().unwrap().pin(b)`  *)
(* or `bm.lock().unwrap().unpin(buf)`, and the guard of the mutex lives    *)
(* until the call returns.                                                 *)

\* The number of pins thread t holds.
Holding(t) ==
    Cardinality({p \in Frames \X (1 .. MaxPins) : threads[t].holds[p[1]] >= p[2]})

\* A thread starts bm.lock().unwrap().pin(block)
CallPin(t, block) ==
    /\ threads[t].pc = "idle"
    /\ Holding(t) < MaxPins
    /\ threads' = [threads EXCEPT ![t] =
                      [@ EXCEPT !.pc = "lock", !.op = "pin", !.arg = block,
                                !.elapsed = 0, !.tries = 0, !.helped = FALSE]]
    /\ UNCHANGED << files, log_page, cur_block, latest_lsn, last_saved_lsn,
                    buffer_pool, num_available, iter, io, ret, appended, snap,
                    yielded, marked, durable, pages, calls, bm_mutex >>
    /\ UNCHANGED << held, todo >>

\* The pin of thread u is waiting, after a failed try_to_pin, and will try
\* again before its deadline.
Waiting(u) ==
    /\ threads[u].op = "pin" /\ threads[u].pc \in {"run", "sleep"}
    /\ threads[u].tries > 0
    /\ ~waiting_too_long(threads[u].elapsed
                            + (IF threads[u].pc = "sleep" THEN SleepMs ELSE 0))

\* A thread starts bm.lock().unwrap().unpin(buf) of a frame it has pinned.
\* `helped` notes, for every waiting pin, that another thread has called
\* unpin for the last pin of a frame.
CallUnpin(t, i) ==
    /\ threads[t].pc = "idle"
    /\ threads[t].holds[i] > 0
    /\ threads' = [u \in Threads |->
                      IF u = t
                      THEN [threads[u] EXCEPT !.pc = "lock", !.op = "unpin", !.arg = i]
                      ELSE IF Waiting(u) /\ buffer_pool[i].pins = 1
                           THEN [threads[u] EXCEPT !.helped = TRUE]
                           ELSE threads[u]]
    /\ UNCHANGED << files, log_page, cur_block, latest_lsn, last_saved_lsn,
                    buffer_pool, num_available, iter, io, ret, appended, snap,
                    yielded, marked, durable, pages, calls, bm_mutex >>
    /\ UNCHANGED << held, todo >>

\* bm.lock().unwrap(): the thread takes the mutex when no thread holds it
ThreadLock(t) ==
    /\ threads[t].pc = "lock"
    /\ bm_mutex = 0
    /\ bm_mutex' = t
    /\ threads' = [threads EXCEPT ![t].pc = "run"]
    /\ UNCHANGED << files, log_page, cur_block, latest_lsn, last_saved_lsn,
                    buffer_pool, num_available, iter, io, ret, appended, snap,
                    yielded, marked, durable, pages, calls >>
    /\ UNCHANGED << held, todo >>

\* BufferManager::pin, one turn of its loop up to the sleep: the test of
\* waiting_too_long and try_to_pin.  The call returns, and the guard of the
\* mutex is dropped, when the wait was too long or a frame was obtained.
PinTry(t) ==
    /\ threads[t].pc = "run" /\ threads[t].op = "pin" /\ bm_mutex = t
    /\ LET r == try_to_pin(World, threads[t].arg)
       IN  IF waiting_too_long(threads[t].elapsed)
           THEN /\ threads' = [threads EXCEPT ![t].pc = "idle", ![t].ok = FALSE]
                /\ bm_mutex' = 0
                /\ ret' = Returned("pin", threads[t].arg, FALSE, 0)
                /\ io' = <<>>
                /\ UNCHANGED << files, log_page, cur_block, latest_lsn,
                                last_saved_lsn, buffer_pool, num_available, marked >>
           ELSE IF r.buf # 0
           THEN /\ Install(r.w)
                /\ threads' = [threads EXCEPT ![t].pc = "idle", ![t].ok = TRUE,
                                               ![t].tries = @ + 1,
                                               ![t].holds[r.buf] = @ + 1]
                /\ bm_mutex' = 0
                /\ ret' = Returned("pin", threads[t].arg, TRUE, r.buf)
                /\ marked' = Unmark(r.w.io)
           ELSE /\ threads' = [threads EXCEPT ![t].pc = "sleep", ![t].tries = @ + 1]
                /\ UNCHANGED << files, log_page, cur_block, latest_lsn,
                                last_saved_lsn, buffer_pool, num_available, io,
                                ret, marked, bm_mutex >>
    /\ UNCHANGED << iter, appended, snap, yielded, durable, pages, calls >>
    /\ UNCHANGED << held, todo >>

\* thread::sleep(Duration::new(1, 0)) in the loop of BufferManager::pin
PinSleep(t) ==
    /\ threads[t].pc = "sleep" /\ bm_mutex = t
    /\ threads' = [threads EXCEPT ![t].pc = "run", ![t].elapsed = @ + SleepMs]
    /\ UNCHANGED << files, log_page, cur_block, latest_lsn, last_saved_lsn,
                    buffer_pool, num_available, iter, io, ret, appended, snap,
                    yielded, marked, durable, pages, calls, bm_mutex >>
    /\ UNCHANGED << held, todo >>

\* BufferManager::unpin under the mutex, and the return of the call
UnpinRun(t) ==
    /\ threads[t].pc = "run" /\ threads[t].op = "unpin" /\ bm_mutex = t
    /\ LET w == BufferManager_unpin(World, threads[t].arg)
       IN  /\ Install(w)
           /\ marked' = Unmark(w.io)
    /\ threads' = [threads EXCEPT ![t].pc = "idle", ![t].ok = TRUE,
                                   ![t].holds[threads[t].arg] = @ - 1]
    /\ bm_mutex' = 0
    /\ ret' = Returned("unpin", threads[t].arg, TRUE, 0)
    /\ UNCHANGED << iter, appended, snap, yielded, durable, pages, calls >>
    /\ UNCHANGED << held, todo >>

MtNext ==
    \/ \E t \in Threads, b \in SmallBlocks : CallPin(t, b)
    \/ \E t \in Threads, i \in Frames : CallUnpin(t, i)
    \/ \E t \in Threads : ThreadLock(t)
    \/ \E t \in Threads : PinTry(t)
    \/ \E t \in Threads : PinSleep(t)
    \/ \E t \in Threads : UnpinRun(t)

MtSpec == SmallInit /\ [][MtNext]_vars

(* The callers that keep a reference to a frame after they unpinned it:   *)
(* bm.unpin(buf) consumes one Arc, a clone of it is left.  The overflow of  *)
(* pins is checked or not, as the build has it; a panic ends the run, and   *)
(* leaves the frame's mutex poisoned.                                       *)

Panicked == ret.op = "panic"

\* bm.pin(block), of a block whose frame has fewer than MaxPins pins
PinAny(block) ==
    /\ ~Panicked
    /\ num_available <= Len(buffer_pool)
    /\ LET hit == find_existing_buffer(World, block)
       IN  hit # 0 => buffer_pool[hit].pins < MaxPins
    /\ Pin(block)

\* bm.unpin(buf), through any reference to a frame that pin has returned,
\* in a build that checks the overflow of pins or in one that does not
UnpinAny(i, checked) ==
    /\ ~Panicked
    /\ num_available <= Len(buffer_pool)
    /\ buffer_pool[i].block # None
    /\ IF checked /\ Buffer_unpin_overflows(World, i)
       THEN /\ ret' = Returned("panic", i, FALSE, 0)
            /\ UNCHANGED << files, log_page, cur_block, latest_lsn,
                            last_saved_lsn, buffer_pool, num_available,
                            io, marked >>
       ELSE LET w == BufferManager_unpin(World, i)
            IN  /\ Install(w)
                /\ ret' = Returned("unpin", i, TRUE, 0)
                /\ marked' = Unmark(w.io)
    /\ UNCHANGED << iter, appended, snap, yielded, durable, pages, calls, conc >>

RetainNext ==
    \/ \E block \in SmallBlocks : PinAny(block)
    \/ \E i \in Frames, checked \in BOOLEAN : UnpinAny(i, checked)

RetainSpec == SmallInit /\ [][RetainNext]_vars

(* The threads when none of them unpins: every pin that finds the frames   *)
(* pinned waits to its deadline.                                           *)

WaitNext ==
    \/ \E t \in Threads, b \in SmallBlocks : CallPin(t, b)
    \/ \E t \in Threads : ThreadLock(t)
    \/ \E t \in Threads : PinTry(t)
    \/ \E t \in Threads : PinSleep(t)

WaitSpec == SmallInit /\ [][WaitNext]_vars

\* The thread that holds the mutex is running: it is scheduled again, and
\* its sleep ends.
WaitFairSpec ==
    WaitSpec /\ \A t \in Threads : WF_vars(PinTry(t)) /\ WF_vars(PinSleep(t))

-----------------------------------------------------------------------------
(* The locks.  Every manager is shared as Arc<Mutex<..>>; a call is       *)
(* `m.lock().unwrap().op(..)` and takes further locks inside.  What follows *)
(* is, for every operation, the sequence of its lock and unlock steps; the  *)
(* data the operation branches on is an argument.  The Mutex<File> that     *)
(* FileManager takes inside its methods is left out: it is only ever taken  *)
(* by the thread that holds the FileManager.                                *)

\* The locks, each with its kind and, for a frame, its index.
BufferManagerLock == <<"BufferManager", 0>>
FrameLock(i) == <<"Frame", i>>
LogManagerLock == <<"LogManager", 0>>
FileManagerLock == <<"FileManager", 0>>

\* `let g = m.lock().unwrap(); body` up to the end of g's scope
Scoped(lock, body) ==
    << [act |-> "lock", lock |-> lock] >> \o body
        \o << [act |-> "unlock", lock |-> lock] >>

\* LogManager::flush
LogManager_flush_locks == Scoped(FileManagerLock, <<>>)

\* LogManager::flush_with_lsn; saves: lsn >= last_saved_lsn
LogManager_flush_with_lsn_locks(saves) ==
    IF saves THEN LogManager_flush_locks ELSE <<>>

\* LogManager::append_new_block
LogManager_append_new_block_locks == Scoped(FileManagerLock, <<>>)

\* LogManager::append; rolls: the record does not fit in the block
LogManager_append_locks(rolls) ==
    IF rolls THEN LogManager_flush_locks \o LogManager_append_new_block_locks
    ELSE <<>>

\* LogIterator::new, LogIterator::has_next, LogIterator::next
LogIterator_locks == Scoped(FileManagerLock, <<>>)

\* The loop of do_rollback, n records long
RECURSIVE rollback_loop_locks(_)
rollback_loop_locks(n) ==
    IF n = 0 THEN LogIterator_locks
    ELSE LogIterator_locks \o LogIterator_locks \o rollback_loop_locks(n - 1)

\* LogManager::iterator
LogManager_iterator_locks == LogManager_flush_locks \o LogIterator_locks

\* Buffer::flush taking the FileManager before the LogManager.
flush_locks_file_first(shape) ==
    IF shape.dirty
    THEN Scoped(FileManagerLock,
                Scoped(LogManagerLock, LogManager_flush_with_lsn_locks(FALSE)))
    ELSE <<>>

\* Buffer::flush; shape: txnum >= 0, lsn >= last_saved_lsn, block is Some
Buffer_flush_locks(shape) ==
    IF shape.dirty
    THEN Scoped(LogManagerLock,
                LogManager_flush_with_lsn_locks(shape.saves)
                    \o (IF shape.has_block THEN Scoped(FileManagerLock, <<>>)
                        ELSE <<>>))
    ELSE <<>>

\* Buffer::assign_to_block
Buffer_assign_to_block_locks(shape) ==
    Buffer_flush_locks(shape) \o Scoped(FileManagerLock, <<>>)

\* The closure of `find` locks the frames in order, up to the one it finds.
RECURSIVE find_locks(_, _)
find_locks(i, last) ==
    IF i > last THEN <<>>
    ELSE Scoped(FrameLock(i), <<>>) \o find_locks(i + 1, last)

\* find_existing_buffer, choose_unpinned_buffer; found: the index, or 0
find_buffer_locks(found, num_buffs) ==
    find_locks(1, IF found # 0 THEN found ELSE num_buffs)

\* BufferManager::try_to_pin; e: the frame find_existing_buffer finds,
\* u: the frame choose_unpinned_buffer finds
try_to_pin_locks(e, u, shape, num_buffs) ==
    find_buffer_locks(e, num_buffs)
        \o (IF e # 0 THEN Scoped(FrameLock(e), <<>>)
            ELSE find_buffer_locks(u, num_buffs)
                    \o (IF u # 0
                        THEN Scoped(FrameLock(u), Buffer_assign_to_block_locks(shape))
                        ELSE <<>>))

\* bm.lock().unwrap().pin(block)
BufferManager_pin_locks(e, u, shape, num_buffs) ==
    Scoped(BufferManagerLock, try_to_pin_locks(e, u, shape, num_buffs))

\* bm.lock().unwrap().unpin(buf)
BufferManager_unpin_locks(i) ==
    Scoped(BufferManagerLock, Scoped(FrameLock(i), <<>>))

\* The loop of flush_all from frame i on; shapes[i] is None when the
\* frame's modifying_tx is not txnum
RECURSIVE flush_all_loop_locks(_, _)
flush_all_loop_locks(i, shapes) ==
    IF i > Len(shapes) THEN <<>>
    ELSE Scoped(FrameLock(i),
                IF shapes[i] # None THEN Buffer_flush_locks(shapes[i]) ELSE <<>>)
            \o flush_all_loop_locks(i + 1, shapes)

\* bm.lock().unwrap().flush_all(txnum)
BufferManager_flush_all_locks(shapes) ==
    Scoped(BufferManagerLock, flush_all_loop_locks(1, shapes))

\* lm.lock().unwrap().append(rec)
LogAppend_locks(rolls) == Scoped(LogManagerLock, LogManager_append_locks(rolls))

\* lm.lock().unwrap().flush_with_lsn(lsn)
LogFlushWithLsn_locks(saves) ==
    Scoped(LogManagerLock, LogManager_flush_with_lsn_locks(saves))

\* RecoveryManager::do_rollback: the iteration over the log, under the
\* LogManager's lock from its first line to its return
do_rollback_locks(n) ==
    Scoped(LogManagerLock, LogManager_iterator_locks \o rollback_loop_locks(n))

\* buf.lock().unwrap().set_modified(txnum, lsn), by a holder of a pin
set_modified_locks(i) == Scoped(FrameLock(i), <<>>)

\* What Buffer::flush can find in a frame: a clean frame, or a dirty one
\* with or without a log to save and a block to write.
Shapes ==
    {[dirty |-> FALSE, saves |-> FALSE, has_block |-> FALSE]}
        \cup [dirty : {TRUE}, saves : BOOLEAN, has_block : BOOLEAN]

\* What flush_all can find in a frame: the frame of another transaction,
\* which it skips, or one it flushes.
ShapesOrSkip == {None} \cup Shapes

\* The frames of the pool, and 0 for none
FrameOrNone == {0} \cup Frames

\* The thread t is between two calls.
Idle(t) == todo[t] = <<>> /\ held[t] = <<>>

\* A thread begins a call: the steps of the call are what it has to do.
Begin(t, steps) ==
    /\ Idle(t)
    /\ todo' = [todo EXCEPT ![t] = steps]
    /\ UNCHANGED << held, seq_state >>

BeginPin(t, e, u, shape) ==
    Begin(t, BufferManager_pin_locks(e, u, shape, Len(buffer_pool)))

BeginUnpin(t, i) == Begin(t, BufferManager_unpin_locks(i))

BeginFlushAll(t, shapes) == Begin(t, BufferManager_flush_all_locks(shapes))

BeginLogAppend(t, rolls) == Begin(t, LogAppend_locks(rolls))

BeginLogFlushWithLsn(t, saves) == Begin(t, LogFlushWithLsn_locks(saves))

BeginRollback(t, n) == Begin(t, do_rollback_locks(n))

BeginSetModified(t, i) == Begin(t, set_modified_locks(i))

\* The threads that hold the lock.
Holders(lock) == {u \in Threads : \E k \in DOMAIN held[u] : held[u][k] = lock}

\* Mutex::lock: the thread goes on when no thread holds the lock.
Acquire(t) ==
    /\ todo[t] # <<>>
    /\ Head(todo[t]).act = "lock"
    /\ Holders(Head(todo[t]).lock) = {}
    /\ held' = [held EXCEPT ![t] = Append(@, Head(todo[t]).lock)]
    /\ todo' = [todo EXCEPT ![t] = Tail(@)]
    /\ UNCHANGED seq_state

\* The drop of a MutexGuard
Release(t) ==
    /\ todo[t] # <<>>
    /\ Head(todo[t]).act = "unlock"
    /\ held' = [held EXCEPT ![t] =
                   SelectSeq(@, LAMBDA l : l # Head(todo[t]).lock)]
    /\ todo' = [todo EXCEPT ![t] = Tail(@)]
    /\ UNCHANGED seq_state

LockNext ==
    \/ \E t \in Threads, e \in FrameOrNone, u \in FrameOrNone, shape \in Shapes :
          BeginPin(t, e, u, shape)
    \/ \E t \in Threads, i \in Frames : BeginUnpin(t, i)
    \/ \E t \in Threads, shapes \in [Frames -> ShapesOrSkip] : BeginFlushAll(t, shapes)
    \/ \E t \in Threads, rolls \in BOOLEAN : BeginLogAppend(t, rolls)
    \/ \E t \in Threads, saves \in BOOLEAN : BeginLogFlushWithLsn(t, saves)
    \/ \E t \in Threads, n \in 0 .. MaxRecords : BeginRollback(t, n)
    \/ \E t \in Threads, i \in Frames : BeginSetModified(t, i)
    \/ \E t \in Threads : Acquire(t)
    \/ \E t \in Threads : Release(t)

LockSpec == SmallInit /\ [][LockNext]_vars

-----------------------------------------------------------------------------
(* The smaller pool under transactions that start, modify the pages they  *)
(* pin and commit.                                                         *)

RecNext ==
    \/ \E b \in SmallBlocks : Unpinned(b) /\ Pin(b)
    \/ \E i \in Frames : Unpin(i)
    \/ \E i \in Frames, t \in TxNums : SetModified(i, t, -1)
    \/ latest_lsn < WalAppends /\ RmNew
    \/ \E t \in TxNums : latest_lsn < WalAppends /\ Commit(t)

RecSpec == SmallInit /\ [][RecNext]_vars

(* A caller of Page alone: the accessors at offsets inside the page, at    *)
(* its end and across its end.                                             *)

\* Offsets handed to the accessors of a page.
PageOffsets == {0, BlockSize - 6, BlockSize - 2}

\* Values handed to set_i32.
I32Vals == {1, -2}

\* Strings handed to set_string: "a", "\u{e9}" (two bytes in UTF-8) and both.
Strings == {<<97>>, <<233>>, <<97, 233>>}

PageNext ==
    \/ \E off \in PageOffsets, v \in I32Vals :
         calls < MaxPageCalls /\ PageSetI32(1, off, v)
    \/ \E off \in PageOffsets : calls < MaxPageCalls /\ PageGetI32(1, off)
    \/ \E off \in PageOffsets, b \in Payloads :
         calls < MaxPageCalls /\ PageSetBytes(1, off, b)
    \/ \E off \in PageOffsets : calls < MaxPageCalls /\ PageGetBytes(1, off)
    \/ \E off \in PageOffsets, str \in Strings :
         calls < MaxPageCalls /\ PageSetString(1, off, str)
    \/ \E off \in PageOffsets : calls < MaxPageCalls /\ PageGetString(1, off)

PageSpec == Init /\ [][PageNext]_vars

(* A caller of the FileManager: it fills one page, writes its pages to the *)
(* blocks of the data file and reads blocks back.                          *)

\* The blocks of the data file the caller writes and reads.
FileBlockNums == 0 .. MaxFileBlock
FileBlocks == {BlockId(DataFileName, n) : n \in FileBlockNums}

\* Where the caller fills its page: at the start, and across the end.
FillOffsets == {0, BlockSize - 6}

FileNext ==
    \/ \E off \in FillOffsets, b \in Payloads :
         calls < MaxFileCalls /\ PageSetBytes(1, off, b)
    \/ \E i \in PageIds, b \in FileBlocks : calls < MaxFileCalls /\ FmWrite(i, b)
    \/ \E i \in PageIds, b \in FileBlocks : calls < MaxFileCalls /\ FmRead(i, b)
    \/ calls < MaxFileCalls /\ FmAppend(DataFileName)

FileSpec == Init /\ [][FileNext]_vars

-----------------------------------------------------------------------------
(* What the properties below read off a state.                             *)

\* The places in an I/O trace where a frame's page is written to disk.
FrameWrites(trace) ==
    {k \in DOMAIN trace : trace[k].op = "write" /\ trace[k].frame # 0}

\* The places in an I/O trace where a block is read into frame i.
FrameReads(trace, i) ==
    {k \in DOMAIN trace : trace[k].op = "read" /\ trace[k].frame = i}

Resident(b) == \E i \in Frames : buffer_pool[i].block = b

AllPinned == \A i \in Frames : buffer_pool[i].pins > 0

\* The records of one log block, newest first: from its boundary to its end.
RECURSIVE RecordsFrom(_, _)
RecordsFrom(page, pos) ==
    IF pos >= Len(page) THEN <<>>
    ELSE LET r == Page_get_bytes(page, pos)
         IN  IF ~r.ok THEN <<>>
             ELSE <<r.val>> \o RecordsFrom(page, pos + I32_SIZE + Len(r.val))

\* The records a log block holds, oldest first.  A block whose boundary is
\* outside [I32_SIZE, block size] (a hole of zeros) holds none.
BlockRecords(page) ==
    LET boundary == Page_get_i32(page, 0).val
    IN  IF boundary >= I32_SIZE /\ boundary <= Len(page)
        THEN Reverse(RecordsFrom(page, boundary))
        ELSE <<>>

\* The records stored in the log file, oldest first: block after block.
RECURSIVE LogRecordsUpTo(_, _)
LogRecordsUpTo(file, n) ==
    IF n = 0 THEN <<>>
    ELSE LogRecordsUpTo(file, n - 1)
         \o BlockRecords(SubSeq(file, (n - 1) * BlockSize + 1, n * BlockSize))

DiskLog == LogRecordsUpTo(files[LogFileName], Len(files[LogFileName]) \div BlockSize)

-----------------------------------------------------------------------------
(* The buffer pool.                                                        *)

\* C1: after every completed operation of the BufferManager (new, a pin
\* that succeeds or fails, an unpin of a pinned frame, flush_all),
\* available() is the number of frames of the pool whose pin count is zero.
C1_AvailableCountsUnpinned ==
    BufferManager_available(World)
        = Cardinality({i \in Frames : buffer_pool[i].pins = 0})

\* An unpin that left its frame pinned by another holder, in a full pool.
C1_Witness ==
    /\ ret.op = "unpin"
    /\ buffer_pool[ret.arg].pins = 1
    /\ num_available = 0

\* C2: whenever a frame's page is written to disk, by an eviction inside pin
\* or by flush_all, the log has been flushed up to the frame's LSN: at the
\* moment of the write last_saved_lsn >= lsn, for every lsn that append has
\* returned.
C2_LogFlushedBeforePageWrite ==
    \A k \in FrameWrites(io) :
        io[k].lsn \in 1 .. io[k].latest => io[k].saved >= io[k].lsn

\* A page write whose log flush was due: the log was written just before
\* it, and until then last_saved_lsn was below the frame's LSN.
C2_Witness ==
    \E k \in FrameWrites(io) :
        /\ k > 1
        /\ io[k].lsn \in 1 .. io[k].latest
        /\ io[k - 1].op = "write" /\ io[k - 1].frame = 0
        /\ io[k - 1].saved < io[k].lsn

-----------------------------------------------------------------------------
(* The log.                                                                *)

\* Record number k of the appends is stored in the log file on disk, at its
\* place in the order of the appends.
OnDisk(k) == k <= Len(DiskLog) /\ DiskLog[k] = appended[k]

\* C3: once flush_with_lsn has returned, every record with
\* lsn <= last_saved_lsn is durable: it is stored in the log file on disk,
\* and it is still stored there in every later state, whatever appends,
\* block roll-overs and flushes follow.
C3_FlushedRecordsDurable == \A k \in 1 .. durable : OnDisk(k)

\* C4: the iterator returned by iterator() yields every record appended
\* before, exactly once and newest first, and then ends, also when the
\* records fill more than one log block.
C4_IteratorYieldsReverse ==
    (ret.op = "next" /\ ~ret.ok) => yielded = Reverse(snap)

\* C5: the k-th append on a LogManager returns k, so the LSNs start at 1 and
\* increase strictly, whether or not the append rolls over to a new block.
C5_AppendReturnsCount ==
    ret.op = "append" => ret.ok /\ ret.val = Len(appended)

\* An append that rolled over (it wrote to the log file) and was not the first.
C5_Witness ==
    /\ ret.op = "append"
    /\ ret.val >= 2
    /\ \E k \in DOMAIN io : io[k].op = "append"

\* C6: always 0 <= last_saved_lsn <= latest_lsn, and no operation (append,
\* flush_with_lsn, iterator) decreases last_saved_lsn.
C6_SavedLsnBounded ==
    /\ [](0 <= last_saved_lsn /\ last_saved_lsn <= latest_lsn)
    /\ [][last_saved_lsn' >= last_saved_lsn]_vars

\* A flush has saved some records and an append has added one since.
C6_Witness ==
    /\ ret.op = "append"
    /\ 0 < last_saved_lsn
    /\ last_saved_lsn < latest_lsn

-----------------------------------------------------------------------------
(* Pinning.                                                                *)

\* C7: pin(b) when a frame holds b returns that frame and does no I/O: no
\* file read, no file write, no log flush.  The frame's contents, txnum, lsn
\* and block stay, its pin count goes up by one, num_available goes down by
\* one when the frame was unpinned, and no other frame changes.
C7_ResidentPinNoIo ==
    [][\A b \in SmallBlocks :
         (ret'.op = "pin" /\ ret'.arg = b /\ Resident(b)) =>
            \E i \in Frames :
                /\ buffer_pool[i].block = b
                /\ ret'.ok /\ ret'.val = i
                /\ io' = <<>>
                /\ files' = files
                /\ UNCHANGED << log_page, cur_block, latest_lsn, last_saved_lsn >>
                /\ buffer_pool' = [buffer_pool EXCEPT ![i].pins = @ + 1]
                /\ num_available' = IF buffer_pool[i].pins = 0
                                    THEN num_available - 1
                                    ELSE num_available]_vars

\* A second pin of a resident block whose frame is dirty and was written to
\* by its first holder.
C7_Witness ==
    /\ ret.op = "pin" /\ ret.ok /\ io = <<>>
    /\ buffer_pool[ret.val].pins = 2
    /\ buffer_pool[ret.val].txnum >= 0
    /\ buffer_pool[ret.val].contents # Page_new(BlockSize)

\* C8: pin of a block no frame holds, when every frame is pinned, returns
\* the error and no frame, and leaves every frame (block, pin count,
\* contents) and available() as they were.
C8_NoBufferWhenAllPinned ==
    [][\A b \in DataBlocks :
         (ret'.op = "pin" /\ ret'.arg = b /\ ~Resident(b) /\ AllPinned) =>
            /\ ~ret'.ok /\ ret'.val = 0
            /\ buffer_pool' = buffer_pool
            /\ num_available' = num_available]_vars

\* A pin has failed.
C8_Witness == ret.op = "pin" /\ ~ret.ok /\ AllPinned /\ ~Resident(ret.arg)

\* C9: a pinned frame is not evicted: a pin, of whatever block, leaves
\* every frame whose pin count is above zero with its block and its page,
\* and reads no block into it.
C9_PinnedFrameNotEvicted ==
    [][\A b \in SmallBlocks :
         (ret'.op = "pin" /\ ret'.arg = b) =>
            \A i \in Frames :
                buffer_pool[i].pins > 0 =>
                    /\ buffer_pool'[i].block = buffer_pool[i].block
                    /\ buffer_pool'[i].contents = buffer_pool[i].contents
                    /\ FrameReads(io', i) = {}]_vars

\* A pin evicted the second frame while the first one, the replacement
\* policy's first choice, was pinned and held a page its holder had written to.
C9_Witness ==
    /\ ret.op = "pin" /\ ret.ok /\ ret.val = 2
    /\ FrameWrites(io) # {}
    /\ buffer_pool[1].pins > 0
    /\ buffer_pool[1].contents # Page_new(BlockSize)

\* C10: flush_all(t) writes the page of exactly the frames last marked by
\* set_modified with transaction t and not written since, and leaves every
\* other frame (contents, txnum, lsn, block, pin count) as it was.
C10_FlushAllExactlyTx ==
    [][\A t \in TxNums :
         (ret'.op = "flush_all" /\ ret'.arg = t) =>
            \A i \in Frames :
                /\ Wrote(io', i) <=> marked[i] = t
                /\ marked[i] # t => buffer_pool'[i] = buffer_pool[i]]_vars

-----------------------------------------------------------------------------
(* The file layer.                                                         *)

\* The page a write or a read of the file layer names.
PageOf(r) == pages[r.arg.page]

\* The number of bytes a set_bytes or a set_string has to store.
StoredLen(r) == IF r.op = "set_string" THEN Len(as_bytes(r.val)) ELSE Len(r.val)

\* C11: for every block b and block-sized page p, write(b, p) followed by
\* read(b, q) leaves q's bytes equal to p's bytes; and a write of a
\* block-sized page to block b does not change what a read of a different
\* block of the same file returns, into whatever page the caller holds.
C11_WriteReadRoundTrip ==
    [][((/\ ret.op = "write" /\ ret'.op = "read"
         /\ ret'.arg.block = ret.arg.block
         /\ Len(PageOf(ret)) = FileManager_block_size)
            => pages'[ret'.arg.page] = PageOf(ret))
       /\
       ((ret'.op = "write" /\ Len(pages[ret'.arg.page]) = FileManager_block_size)
            => \A b \in FileBlocks \ {ret'.arg.block}, i \in PageIds :
                  ReadInto(files'[b.filename], FileManager_block_size * b.number,
                           pages[i])
                    = ReadInto(files[b.filename], FileManager_block_size * b.number,
                               pages[i]))
      ]_vars

\* C12: append(file) grows length(file) by exactly one block, and the block
\* number of the BlockId it returns is length(file) as it was before the call.
C12_AppendGrowsByOne ==
    [][ret'.op = "fm_append" =>
         /\ Len(files'[ret'.arg]) \div FileManager_block_size
              = FileManager_length(World, ret'.arg) + 1
         /\ ret'.val.number = FileManager_length(World, ret'.arg)]_vars

\* C13: read(block_id, page) fails when fewer than block_size bytes can be
\* read at the block's offset, as when the block lies at or beyond the end
\* of the file: it does not return Ok then.
C13_ShortReadFails ==
    (ret.op = "read" /\ ret.val < FileManager_block_size) => ~ret.ok

\* C14: a page's backing storage has length exactly block_size after any
\* sequence of accessor calls (a set whose bytes would extend past offset
\* block_size does not grow the page), and so FileManager::write never
\* writes more than block_size bytes for one block.
C14_PageLengthIsBlockSize ==
    /\ \A i \in PageIds : Len(pages[i]) = FileManager_block_size
    /\ Len(log_page) = FileManager_block_size
    /\ \A i \in Frames : Len(buffer_pool[i].contents) = FileManager_block_size
    /\ ret.op = "write" => Len(PageOf(ret)) <= FileManager_block_size

\* C15: for every offset off and byte string b with
\* off + I32_SIZE + len(b) <= block_size, set_bytes(off, b) stores len(b) as
\* a big-endian integer of I32_SIZE bytes at off, and get_bytes(off) right
\* after it returns b; likewise set_string(off, s) stores the length of s in
\* bytes and get_string(off) right after it returns s.
C15_BytesRoundTrip ==
    /\ []((/\ ret.op \in {"set_bytes", "set_string"}
           /\ ret.arg.off + Page_max_length(StoredLen(ret)) <= FileManager_block_size)
          => SubSeq(PageOf(ret), ret.arg.off + 1, ret.arg.off + I32_SIZE)
               = <<0, 0, 0, StoredLen(ret)>>)
    /\ [][((/\ ret.op = "set_bytes" /\ ret'.op = "get_bytes"
             /\ ret'.arg = ret.arg
             /\ ret.arg.off + Page_max_length(StoredLen(ret))
                  <= FileManager_block_size)
                => (ret'.ok /\ ret'.val = ret.val))
           /\
           ((/\ ret.op = "set_string" /\ ret'.op = "get_string"
             /\ ret'.arg = ret.arg
             /\ ret.arg.off + Page_max_length(StoredLen(ret))
                  <= FileManager_block_size)
                => (ret'.ok /\ ret'.val = ret.val))
          ]_vars

\* get_bytes has returned the two bytes that fit exactly between their
\* length prefix and the end of the page.
C15_Witness ==
    /\ ret.op = "get_bytes" /\ ret.ok
    /\ ret.arg.off + Page_max_length(Len(ret.val)) = FileManager_block_size
    /\ ret.val = <<8, 9>>

-----------------------------------------------------------------------------
(* Commit, flush and the layout of the log block.                          *)

\* C18: on commit the commit record is appended to the log, the log is
\* flushed with that record's LSN, and only then flush_all(tx_id) writes the
\* transaction's pages: at every page write of a commit the commit record
\* has been appended and saved.
C18_CommitLogsBeforePages ==
    ret.op = "commit" =>
        \A k \in FrameWrites(io) :
            io[k].latest >= ret.val /\ io[k].saved >= ret.val

\* C19: after a successful flush of a dirty frame, by flush_all or by the
\* eviction inside pin, the frame's txnum is -1 whatever txnum >= 0 it had,
\* so that it is not written again until set_modified is called.
C19_FlushCleansFrame ==
    [][\A i \in Frames : Wrote(io', i) => buffer_pool'[i].txnum = -1]_vars

\* The boundary field of a log page.
Boundary(page) == Page_get_i32(page, 0).val

\* C20: when a record of n bytes fits in the current log block
\* (boundary - (I32_SIZE + n) >= I32_SIZE), append stores its length and
\* then its bytes at position boundary - (I32_SIZE + n), sets the boundary
\* field to that position, and leaves every byte of the region
\* [old boundary, block_size) as it was.
C20_AppendInBlock ==
    [][(ret'.op = "append"
        /\ Boundary(log_page) - (I32_SIZE + Len(ret'.arg)) >= I32_SIZE)
          => LET n == Len(ret'.arg)
                 pos == Boundary(log_page) - (I32_SIZE + n)
             IN  /\ Boundary(log_page') = pos
                 /\ SubSeq(log_page', pos + 1, pos + I32_SIZE) = <<0, 0, 0, n>>
                 /\ SubSeq(log_page', pos + I32_SIZE + 1, pos + I32_SIZE + n)
                      = ret'.arg
                 /\ SubSeq(log_page', Boundary(log_page) + 1, FileManager_block_size)
                      = SubSeq(log_page, Boundary(log_page) + 1,
                               FileManager_block_size)
                 /\ Len(log_page') = FileManager_block_size
                 /\ cur_block' = cur_block /\ io' = <<>>]_vars

\* An append has put its record in front of an earlier one, in the room
\* that was left in the block.
C20_Witness ==
    /\ ret.op = "append" /\ io = <<>>
    /\ Len(appended) >= 2
    /\ Boundary(log_page) + Page_max_length(Len(ret.arg)) < FileManager_block_size
    /\ Page_get_bytes(log_page, Boundary(log_page)).val = ret.arg

-----------------------------------------------------------------------------
(* Threads.                                                                *)

\* C16: a thread that waits in pin for a block that is not resident, with
\* every frame pinned, obtains a frame and not the timeout error when
\* another thread calls unpin for a frame before the deadline: a pin that
\* has returned after such a call of another thread has returned a frame.
C16_UnpinEndsTheWait ==
    \A t \in Threads :
        (threads[t].pc = "idle" /\ threads[t].op = "pin" /\ threads[t].helped)
            => threads[t].ok

\* The order in which the locks are to be taken.
Rank(lock) ==
    CASE lock[1] = "BufferManager" -> 1
      [] lock[1] = "Frame" -> 2
      [] lock[1] = "LogManager" -> 3
      [] lock[1] = "FileManager" -> 4

\* The thread t waits for a lock that a thread holds.
Blocked(t) ==
    /\ todo[t] # <<>>
    /\ Head(todo[t]).act = "lock"
    /\ Holders(Head(todo[t]).lock) # {}

\* Some threads wait, each for a lock that one of them holds.
Deadlocked ==
    \E S \in SUBSET Threads :
        /\ S # {}
        /\ \A t \in S : Blocked(t) /\ Holders(Head(todo[t]).lock) \subseteq S

\* C17: a thread that holds more than one of the locks took them in the
\* order BufferManager, Frame, LogManager, FileManager, and the concurrent
\* pin, unpin, flush_all, log append, flush_with_lsn and log iteration never
\* deadlock: no set of threads waits, each for a lock another of them holds.
C17_LockOrderNoDeadlock ==
    /\ \A t \in Threads : \A j, k \in DOMAIN held[t] :
            j < k => Rank(held[t][j]) < Rank(held[t][k])
    /\ ~Deadlocked

\* A thread that holds the BufferManager and a frame waits, in a flush,
\* for the LogManager, which a thread holds together with the FileManager.
C17_Witness ==
    \E t \in Threads, u \in Threads :
        /\ held[t] = << BufferManagerLock, FrameLock(2) >>
        /\ Blocked(t)
        /\ held[u] = << LogManagerLock, FileManagerLock >>

-----------------------------------------------------------------------------
(* The log: new blocks, what an append leaves alone, flushes, the boundary *)
(* and the iterator's two methods.                                         *)

\* The bytes the files hold of a block.
DiskBlock(fs, block) ==
    SubSeq(fs[block.filename], FileManager_block_size * block.number + 1,
           FileManager_block_size * (block.number + 1))

\* The record of the append does not fit in what the log block has left.
Rolls(rec) == Boundary(log_page) - (I32_SIZE + Len(rec)) < I32_SIZE

\* C21: when an appended record does not fit in the current log block, the
\* current block is flushed, the log file grows by one block, cur_block
\* becomes that new block, a block other than the one before, and after the
\* append the boundary in the new block is block_size - need.
C21_AppendOpensNewBlock ==
    [][(ret'.op = "append" /\ Rolls(ret'.arg))
          => /\ io' # <<>> /\ io'[1].op = "write" /\ io'[1].block = cur_block
             /\ FileManager_length([files |-> files'], LogFileName)
                  = FileManager_length(World, LogFileName) + 1
             /\ cur_block' # cur_block
             /\ cur_block'.number = FileManager_length(World, LogFileName)
             /\ Boundary(log_page')
                  = FileManager_block_size - (I32_SIZE + Len(ret'.arg))]_vars

\* C22: records are not flushed on append: an append that does not roll
\* over changes only the log page and latest_lsn; the log file on disk,
\* last_saved_lsn and cur_block stay as they were and no file I/O is done.
C22_AppendLeavesDisk ==
    [][(ret'.op = "append" /\ ~Rolls(ret'.arg))
          => /\ files' = files
             /\ last_saved_lsn' = last_saved_lsn
             /\ cur_block' = cur_block
             /\ io' = <<>>
             /\ latest_lsn' = latest_lsn + 1
             /\ log_page' # log_page]_vars

\* An append has left its record in the log page only: the block on disk
\* differs from the page and the record's LSN is not saved.
C22_Witness ==
    /\ ret.op = "append" /\ io = <<>>
    /\ last_saved_lsn < ret.val
    /\ DiskBlock(files, cur_block) # log_page

\* C23: flush_with_lsn(lsn) with lsn >= last_saved_lsn leaves the block
\* cur_block on disk equal to the log page and last_saved_lsn equal to
\* latest_lsn; with lsn < last_saved_lsn it writes nothing and leaves the
\* LogManager and the files as they were.
C23_FlushWithLsn ==
    [][ret'.op = "flush_with_lsn"
          => IF ret'.arg >= last_saved_lsn
             THEN /\ DiskBlock(files', cur_block') = log_page'
                  /\ last_saved_lsn' = latest_lsn'
                  /\ latest_lsn' = latest_lsn
                  /\ log_page' = log_page /\ cur_block' = cur_block
             ELSE /\ io' = <<>> /\ files' = files
                  /\ UNCHANGED << log_page, cur_block, latest_lsn,
                                  last_saved_lsn >>]_vars

\* A flush_with_lsn of the last saved LSN has written the records that
\* were appended since.
C23_Witness ==
    /\ ret.op = "flush_with_lsn" /\ io # <<>>
    /\ ret.arg < latest_lsn /\ ret.arg > 0
    /\ last_saved_lsn = latest_lsn
    /\ DiskBlock(files, cur_block) = log_page

\* C26: for every sequence of appends with records of any length, also of
\* one too long for an empty block, the boundary field of the log page
\* stays within [I32_SIZE, block_size], so that no record's bytes lie over
\* the boundary field.
C26_BoundaryInRange ==
    /\ Boundary(log_page) >= I32_SIZE
    /\ Boundary(log_page) <= FileManager_block_size

\* C27: has_next and next agree: in every state of an iterator has_next()
\* is true exactly when the next() that follows returns a record.
C27_HasNextAgreesWithNext ==
    iter # None =>
        (LogIterator_has_next(iter) <=> LogIterator_next(World, iter).item.some)

-----------------------------------------------------------------------------
(* Replacement of frames.                                                  *)

\* The files hold the whole of the block.
InFile(fs, block) ==
    Len(fs[block.filename]) >= FileManager_block_size * (block.number + 1)

\* The pin just made took its frame by replacement: it read the block.
Replaced == ret'.op = "pin" /\ ret'.ok /\ FrameReads(io', ret'.val) # {}

\* C24: evicting a dirty frame never loses its modification.  When pin
\* replaces a frame that holds block b with txnum >= 0, the frame's page is
\* written to block b before the new block is read into the frame; the
\* block b on disk changes only by the write of the page of the frame that
\* holds b; and a pin that reads a block the file holds gets the block's
\* bytes on disk: so a later pin(b) sees the modified bytes.
C24_EvictionKeepsModification ==
    [][((Replaced /\ buffer_pool[ret'.val].block # None
                  /\ buffer_pool[ret'.val].txnum >= 0)
          => LET i == ret'.val
                 b == buffer_pool[i].block
             IN  /\ \E k \in DOMAIN io' :
                        /\ io'[k].op = "write" /\ io'[k].frame = i
                        /\ io'[k].block = b
                        /\ \A r \in FrameReads(io', i) : k < r
                 /\ InFile(files', b)
                 /\ DiskBlock(files', b) = buffer_pool[i].contents)
        /\
        (\A b \in SmallBlocks :
            (InFile(files, b) /\ DiskBlock(files', b) # DiskBlock(files, b))
              => \E i \in Frames :
                    /\ buffer_pool[i].block = b
                    /\ DiskBlock(files', b) = buffer_pool[i].contents)
        /\
        ((Replaced /\ InFile(files', ret'.arg))
          => buffer_pool'[ret'.val].contents = DiskBlock(files', ret'.arg))]_vars

\* A pin has read back, into the other frame, a block whose page was
\* modified and then evicted from the frame it was in.
C24_Witness ==
    /\ ret.op = "pin" /\ ret.ok /\ FrameReads(io, ret.val) # {}
    /\ FrameWrites(io) = {}
    /\ InFile(files, ret.arg)
    /\ Page_get_i32(buffer_pool[ret.val].contents, ModOffset).val \in ModVals
    /\ buffer_pool[ret.val].contents = DiskBlock(files, ret.arg)
    /\ buffer_pool[ret.val].txnum < 0

\* C28: in every state of the pool no two frames hold the same block.
C28_BlockInOneFrame ==
    \A i \in Frames, j \in Frames :
        (i # j /\ buffer_pool[i].block # None)
            => buffer_pool[i].block # buffer_pool[j].block

\* Every frame holds a block, and a pin has found the block it asked for
\* in a frame that nobody had pinned.
C28_Witness ==
    /\ ret.op = "pin" /\ ret.ok /\ io = <<>>
    /\ buffer_pool[ret.val].pins = 1
    /\ ret.val = 2
    /\ \A i \in Frames : buffer_pool[i].block # None /\ buffer_pool[i].pins <= 1
    /\ buffer_pool[1].pins = 0

\* C29: after pin(b) has taken a frame by replacement, the frame's page is
\* the block b as the disk holds it, with no byte left of the block the
\* frame held before, also when b lies at or beyond the end of its file.
C29_ReplacedFrameHoldsBlock ==
    [][Replaced
          => buffer_pool'[ret'.val].contents
               = ReadInto(files'[ret'.arg.filename],
                          FileManager_block_size * ret'.arg.number,
                          Page_new(FileManager_block_size))]_vars

-----------------------------------------------------------------------------
(* The wait of pin.                                                        *)

\* The thread t is inside BufferManager::pin.
InPin(t) == threads[t].op = "pin" /\ threads[t].pc \in {"run", "sleep"}

\* The pin of thread t has returned the error.
PinFailed(t) ==
    threads[t].op = "pin" /\ threads[t].pc = "idle" /\ ~threads[t].ok

\* C25: pin always terminates.  The tries of try_to_pin are one sleep
\* apart and finitely many; the loop stops once the time elapsed exceeds
\* MAX_TIME, not a sleep later, and returns the error then; it has made at
\* least one try before it gives up; and a thread inside pin gets out.
C25_PinTerminates ==
    /\ [](\A t \in Threads :
            /\ (threads[t].op = "pin" /\ threads[t].pc = "run")
                  => threads[t].elapsed = threads[t].tries * SleepMs
            /\ (threads[t].op = "pin" /\ threads[t].pc = "sleep")
                  => threads[t].elapsed = (threads[t].tries - 1) * SleepMs
            /\ InPin(t) => threads[t].elapsed <= MAX_TIME + SleepMs
            /\ PinFailed(t)
                  => /\ threads[t].tries >= 1
                     /\ waiting_too_long(threads[t].elapsed)
                     /\ ~waiting_too_long(threads[t].elapsed - SleepMs)
                     /\ threads[t].elapsed = threads[t].tries * SleepMs)
    /\ \A t \in Threads : InPin(t) ~> threads[t].pc = "idle"

\* A pin has given up, with every frame pinned and its block in no frame,
\* after more than one try.
C25_Witness ==
    \E t \in Threads :
        /\ PinFailed(t) /\ threads[t].tries > 1
        /\ AllPinned /\ ~Resident(threads[t].arg)
        /\ bm_mutex = 0

-----------------------------------------------------------------------------
(* The pin counts under any sequence of pin and unpin.                     *)

\* C30: after any sequence of pin and unpin calls, an unpin of a frame
\* whose pin count is already zero among them, every call has returned,
\* every frame's pin count is a non-negative integer and available() is at
\* most the capacity of the pool.
C30_PinsAndAvailableInRange ==
    /\ ~Panicked
    /\ \A i \in Frames : buffer_pool[i].pins \in Nat
    /\ num_available <= Len(buffer_pool)

-----------------------------------------------------------------------------
(* The log file under a second LogManager.                                 *)

\* C31: a LogManager made over a non-empty log file resumes at the file's
\* last block.  The records that an earlier LogManager appended and flushed
\* are stored in the file, in their order, in every state that follows
\* (no append through the new manager overwrites them), and an iterator of
\* the new manager, run to its end, has yielded them last, newest first.
C31_ReopenKeepsFlushedRecords ==
    calls > 0 =>
        /\ \A k \in 1 .. Len(Earlier) : OnDisk(k)
        /\ (ret.op = "next" /\ ~ret.ok) =>
              /\ Len(yielded) >= Len(Earlier)
              /\ SubSeq(yielded, Len(yielded) - Len(Earlier) + 1, Len(yielded))
                    = Reverse(Earlier)

====
